---- MODULE Spec2Model ----
(***************************************************************************)
(* A model of analyzer.py, the memory-leak data analyzer of mongobleed:     *)
(* seven pattern analyzers over one byte buffer, the aggregator            *)
(* HTMLReportGenerator that runs them and keys their results by name, and  *)
(* main(), which reads the buffer, runs the aggregator and writes the      *)
(* text and HTML reports.                                                  *)
(*                                                                         *)
(* A buffer is a sequence of byte values 0..255.  Offsets are 0-based as   *)
(* in the source; positions into a TLA+ sequence are 1-based, so the       *)
(* offset of position i is i - 1.  A decoded text is a sequence of code    *)
(* points.  The buffers of the model hold ASCII bytes and the byte 255,    *)
(* which is invalid wherever it stands in UTF-8.  The names get_name       *)
(* returns are written in ASCII for the source's Chinese texts; they are   *)
(* seven different names, as in the source.                                *)
(***************************************************************************)
EXTENDS Integers, Sequences, FiniteSets, TLC

VARIABLES
    pc,         \* position of the program (main, or a direct use of a class)
    fileState,  \* the input path: "present", "missing" or "unreadable"
    format,     \* args.format: "txt", "html" or "both"
    data,       \* the buffer read from the input file
    analyzers,  \* HTMLReportGenerator.analyzers, in registration order
    results,    \* HTMLReportGenerator.results, an insertion-ordered dict
    calls,      \* the analyze calls so far: each one's start, then its end
    runs,       \* how many times analyze_all has returned
    stdout,     \* the messages printed so far
    txt,        \* the text report: whether it exists, the sections written
    html,       \* the HTML report: whether it exists, the sections written
    uncaught    \* the exception that left main, or "none"

vars == <<pc, fileState, format, data, analyzers, results, calls, runs,
          stdout, txt, html, uncaught>>

(***************************************************************************)
(* Bounds of the model.                                                    *)
(***************************************************************************)
\* the longest list of analyzers registered through add_analyzer directly
MaxAnalyzers == 3
\* how many times analyze_all is run on one aggregator
MaxRuns == 2
\* how many analyzers fail in one run of main
MaxFaults == 2

(***************************************************************************)
(* Bytes, byte classes and sequences.                                      *)
(***************************************************************************)
Byte == 0..255

\* [\x20-\x7E]
Printable == 32..126

Digit == 48..57

Upper == 65..90

Lower == 97..122

Letter == Upper \cup Lower

\* \w of a bytes pattern: [a-zA-Z0-9_]
Word == Letter \cup Digit \cup {95}

\* \s of a bytes pattern: [ \t\n\r\f\v]
Space == {9, 10, 11, 12, 13, 32}

\* [^\s\x00]
NotSpaceNul == Byte \ (Space \cup {0})

\* [^\x00]
NotNul == 1..255

Min(S) == CHOOSE x \in S : \A y \in S : x <= y

Max(S) == CHOOSE x \in S : \A y \in S : x >= y

\* the elements of the set of integers S in ascending order
Ascending(S) ==
    [k \in 1..Cardinality(S) |->
        CHOOSE x \in S : Cardinality({y \in S : y < x}) = k - 1]

RECURSIVE Concat(_)
\* the concatenation of a sequence of sequences
Concat(ss) == IF ss = <<>> THEN <<>> ELSE Head(ss) \o Concat(Tail(ss))

\* s[:n]
Take(s, n) == SubSeq(s, 1, IF Len(s) < n THEN Len(s) ELSE n)

\* the first position j >= i of b that holds no byte of class C, at most
\* limit positions after i; Len(b) + 1 when the run reaches the end
RunEnd(b, i, C, limit) ==
    LET top == IF Len(b) < i + limit - 1 THEN Len(b) ELSE i + limit - 1
        stops == {j \in i..top : b[j] \notin C}
    IN  IF stops = {} THEN top + 1 ELSE Min(stops)

\* the length of the run of bytes of class C that starts at position i
RunLen(b, i, C, limit) == RunEnd(b, i, C, limit) - i

\* s < t in the order of Python's str and bytes: by code point, a proper
\* prefix first
LexLess(s, t) ==
    \E k \in 1..(Len(t)) :
        /\ \A j \in 1..(k - 1) : j <= Len(s) /\ s[j] = t[j]
        /\ (k > Len(s) \/ s[k] < t[k])

\* bytes.decode('ascii', errors='ignore'): the bytes above 127 are dropped
DecodeAsciiIgnore(bs) == SelectSeq(bs, LAMBDA x : x < 128)

\* bytes.decode('utf-8', errors='ignore') on ASCII and the invalid byte 255
DecodeUtf8Ignore(bs) == SelectSeq(bs, LAMBDA x : x < 128)

\* bytes.decode('utf-8', errors='replace'): an invalid byte becomes U+FFFD
DecodeUtf8Replace(bs) ==
    [k \in 1..Len(bs) |-> IF bs[k] < 128 THEN bs[k] ELSE 65533]

\* bytes.decode('utf-8'), strict: raises (UnicodeDecodeError) on an
\* invalid byte
DecodeUtf8Strict(bs) ==
    IF \E k \in 1..Len(bs) : bs[k] >= 128
    THEN [raised |-> TRUE, text |-> <<>>]
    ELSE [raised |-> FALSE, text |-> bs]

(***************************************************************************)
(* StringExtractor                                                         *)
(***************************************************************************)
StringExtractor_get_name == "StringExtraction"

\* strings[:500]
StringCap == 500

\* the end (exclusive) of the match of [\x20-\x7E]{4,} at position i, or 0
StringMatchEnd(b, i) ==
    LET e == RunEnd(b, i, Printable, Len(b))
    IN  IF e - i >= 4 THEN e ELSE 0

RECURSIVE StringFindIter(_, _)
\* re.finditer(pattern, data) from position pos on: the matches left to
\* right, each search starting where the match before it ended
StringFindIter(b, pos) ==
    LET starts == {i \in pos..Len(b) : StringMatchEnd(b, i) # 0}
    IN  IF starts = {} THEN <<>>
        ELSE LET i == Min(starts)
                 e == StringMatchEnd(b, i)
                 s == DecodeAsciiIgnore(SubSeq(b, i, e - 1))
             IN  <<[offset |-> i - 1, length |-> Len(s), content |-> s]>>
                 \o StringFindIter(b, e)

StringExtractor_analyze(b) ==
    LET strings == StringFindIter(b, 1)
    IN  [total_strings |-> Len(strings),
         findings |-> Take(strings, StringCap)]

(***************************************************************************)
(* HexDumpAnalyzer                                                         *)
(***************************************************************************)
HexDumpAnalyzer_get_name == "MemoryLayout"

\* [:10] of the sorted chunk table
TopPatternsCap == 10

\* the start positions of the chunks: range(0, len(data) - 4, 4), 1-based
ChunkStarts(b) == {i \in 1..(Len(b) - 4) : (i - 1) % 4 = 0}

\* data[i:i+4]
Chunk(b, i) == SubSeq(b, i, i + 3)

\* patterns.items(): the distinct chunks in the order of their first
\* occurrence, each with its count
ChunkTable(b) ==
    LET first == {i \in ChunkStarts(b) :
                     \A j \in ChunkStarts(b) : j < i => Chunk(b, j) # Chunk(b, i)}
        order == Ascending(first)
    IN  [k \in 1..Len(order) |->
            <<Chunk(b, order[k]),
              Cardinality({j \in ChunkStarts(b) : Chunk(b, j) = Chunk(b, order[k])})>>]

\* sorted(items, key=lambda x: x[1], reverse=True): by count, largest
\* first; the sort is stable, so equal counts keep the order of items
SortByCountDesc(items) ==
    LET before(k, l) == \/ items[k][2] > items[l][2]
                        \/ items[k][2] = items[l][2] /\ k < l
        rank(k) == 1 + Cardinality({l \in 1..Len(items) : before(l, k)})
    IN  [r \in 1..Len(items) |->
            items[CHOOSE k \in 1..Len(items) : rank(k) = r]]

HexDigit(d) == IF d < 10 THEN 48 + d ELSE 87 + d

\* bytes.hex(): two lower-case hexadecimal digits per byte
Hex(bs) ==
    [k \in 1..(2 * Len(bs)) |->
        IF k % 2 = 1 THEN HexDigit(bs[(k + 1) \div 2] \div 16)
                     ELSE HexDigit(bs[k \div 2] % 16)]

\* (part / total * 100) if total > 0 else 0; the float is kept to two
\* decimals, as hundredths of a percent
Percentage(part, total) ==
    IF total > 0 THEN (part * 10000) \div total ELSE 0

HexDumpAnalyzer_analyze(b) ==
    LET total_size == Len(b)
        null_bytes == Cardinality({i \in 1..Len(b) : b[i] = 0})
        printable == Cardinality({i \in 1..Len(b) : b[i] \in Printable})
        top == Take(SortByCountDesc(ChunkTable(b)), TopPatternsCap)
    IN  [total_size |-> total_size,
         null_bytes |-> null_bytes,
         null_percentage |-> Percentage(null_bytes, total_size),
         printable_bytes |-> printable,
         printable_percentage |-> Percentage(printable, total_size),
         top_patterns |-> [k \in 1..Len(top) |-> <<Hex(top[k][1]), top[k][2]>>]]

(***************************************************************************)
(* CredentialHunter                                                        *)
(***************************************************************************)
CredentialHunter_get_name == "CredentialSearch"

\* ["\s:=], the separator between a keyword and its value
Separator == Space \cup {34, 58, 61}

\* [A-Za-z0-9_-]
KeyChars == Letter \cup Digit \cup {95, 45}

\* [A-Za-z0-9_.-]
TokenChars == KeyChars \cup {46}

\* [0-9A-Z] under re.IGNORECASE
AwsChars == Letter \cup Digit

\* [:200] of a decoded value
ValueCap == 200

\* a pattern keyword["\s:=]+(value{vmin,}); kw holds the keyword's
\* spellings in lower case, group 1 is the value
KeywordPattern(kw, val, vmin) ==
    [kw |-> kw, sep |-> TRUE, val |-> val, vmin |-> vmin, vmax |-> 0, whole |-> FALSE]

\* a pattern prefix followed by value{vmin,vmax}; the captured text is the
\* whole match (group 1 around all of it, or no group and group 0)
PrefixPattern(kw, val, vmin, vmax) ==
    [kw |-> kw, sep |-> FALSE, val |-> val, vmin |-> vmin, vmax |-> vmax, whole |-> TRUE]

\* the dict patterns: the categories in declaration order, each with its
\* patterns in declaration order
Categories ==
    <<"passwords", "usernames", "api_keys", "tokens", "secrets", "aws_keys",
      "mongodb_uris">>

patterns ==
    [passwords |->
        <<KeywordPattern({<<112,97,115,115,119,111,114,100>>}, NotSpaceNul, 4),
          KeywordPattern({<<112,97,115,115,119,100>>}, NotSpaceNul, 4),
          KeywordPattern({<<112,119,100>>}, NotSpaceNul, 4)>>,
     usernames |->
        <<KeywordPattern({<<117,115,101,114,110,97,109,101>>}, NotSpaceNul, 3),
          KeywordPattern({<<117,115,101,114>>}, NotSpaceNul, 3),
          KeywordPattern({<<108,111,103,105,110>>}, NotSpaceNul, 3)>>,
     api_keys |->
        \* api[_-]?key: api_key, api-key or apikey
        <<KeywordPattern({<<97,112,105,95,107,101,121>>,
                          <<97,112,105,45,107,101,121>>,
                          <<97,112,105,107,101,121>>}, KeyChars, 16),
          KeywordPattern({<<97,112,105,107,101,121>>}, KeyChars, 16)>>,
     tokens |->
        <<KeywordPattern({<<116,111,107,101,110>>}, TokenChars, 16),
          KeywordPattern({<<97,117,116,104>>}, TokenChars, 16)>>,
     secrets |->
        <<KeywordPattern({<<115,101,99,114,101,116>>}, KeyChars, 8)>>,
     aws_keys |->
        <<PrefixPattern({<<97,107,105,97>>}, AwsChars, 16, 16)>>,
     mongodb_uris |->
        <<PrefixPattern({<<109,111,110,103,111,100,98,58,47,47>>}, NotSpaceNul, 1, 0),
          PrefixPattern({<<109,111,110,103,111,100,98,43,115,114,118,58,47,47>>},
                        NotSpaceNul, 1, 0)>>]

\* the lower-case form of an ASCII letter: matching under re.IGNORECASE
CaseFold(x) == IF x \in Upper THEN x + 32 ELSE x

\* the literal w stands at position i of b, whatever the case
LiteralAt(b, i, w) ==
    /\ i + Len(w) - 1 <= Len(b)
    /\ \A j \in 1..Len(w) : CaseFold(b[i + j - 1]) = w[j]

NoMatch == [start |-> 0, vstart |-> 0, end |-> 0]

\* the match of pattern p that starts at position i of b, or NoMatch: the
\* keyword, then the longest separator run that still leaves a value of
\* vmin bytes (the engine gives separator bytes back one at a time), then
\* the longest value
CredentialMatchAt(b, i, p) ==
    LET kws == {w \in p.kw : LiteralAt(b, i, w)}
    IN  IF kws = {} THEN NoMatch
        ELSE
        LET kwEnd == i + Len(CHOOSE w \in kws : TRUE)
            limit == IF p.vmax = 0 THEN Len(b) ELSE p.vmax
            ValLen(v) == RunLen(b, v, p.val, limit)
            seps == RunLen(b, kwEnd, Separator, Len(b))
            cuts == IF p.sep
                    THEN {k \in 1..seps : ValLen(kwEnd + k) >= p.vmin}
                    ELSE {k \in {0} : ValLen(kwEnd) >= p.vmin}
        IN  IF cuts = {} THEN NoMatch
            ELSE LET v == kwEnd + Max(cuts)
                 IN  [start |-> i, vstart |-> v, end |-> v + ValLen(v)]

RECURSIVE CredentialFindIter(_, _, _)
\* re.finditer(pattern, data, re.IGNORECASE) from position pos on, each
\* match as the finding {offset, value}
CredentialFindIter(b, pos, p) ==
    LET starts == {i \in pos..Len(b) : CredentialMatchAt(b, i, p).end # 0}
    IN  IF starts = {} THEN <<>>
        ELSE LET m == CredentialMatchAt(b, Min(starts), p)
                 captured == SubSeq(b, IF p.whole THEN m.start ELSE m.vstart, m.end - 1)
             IN  <<[offset |-> m.start - 1,
                    value |-> Take(DecodeUtf8Replace(captured), ValueCap)]>>
                 \o CredentialFindIter(b, m.end, p)

\* findings[category] after the scan: the findings of the category's
\* patterns, pattern after pattern
CategoryFindings(b, c) ==
    Concat([k \in 1..Len(patterns[c]) |-> CredentialFindIter(b, 1, patterns[c][k])])

\* a variant of Unique that keeps the last finding of each value
Unique_last(items) ==
    LET keep == {k \in 1..Len(items) :
                    \A j \in (k + 1)..Len(items) : items[j].value # items[k].value}
        order == Ascending(keep)
    IN  [k \in 1..Len(order) |-> items[order[k]]]

\* the loop over seen/unique: the first finding of each value, in order
Unique(items) ==
    LET keep == {k \in 1..Len(items) :
                    \A j \in 1..(k - 1) : items[j].value # items[k].value}
        order == Ascending(keep)
    IN  [k \in 1..Len(order) |-> items[order[k]]]

\* dict(findings): the categories with a match, each with its unique list
CredentialHunter_analyze(b) ==
    LET present == {k \in 1..Len(Categories) : CategoryFindings(b, Categories[k]) # <<>>}
    IN  [c \in {Categories[k] : k \in present} |-> Unique(CategoryFindings(b, c))]

(***************************************************************************)
(* JSONExtractor                                                           *)
(*                                                                         *)
(* json.loads is modelled on the texts the model's buffers can hold:       *)
(* objects, strings without escapes and unsigned integers.  The buffers    *)
(* hold no backslash, no sign, no '.', no '[' and no letters that spell    *)
(* true, false, null, NaN or Infinity, so any other start of a value is a  *)
(* parse error, as in json.loads.                                          *)
(***************************************************************************)
JSONExtractor_get_name == "JSONExtraction"

\* {10,500}: the fewest and the most bytes between the two braces
SpanMin == 10

SpanMax == 500

\* the whitespace json skips between tokens
JsonSpace == {32, 9, 10, 13}

\* a variant of JSONMatchEnd that counts the two braces in the 10 to 500
\* bytes: 8 to 498 bytes between them
JSONMatchEnd_braces_counted(b, i) ==
    IF b[i] # 123 THEN 0
    ELSE LET run == RunLen(b, i + 1, NotNul, SpanMax - 2)
             ends == {m \in (SpanMin - 2)..run : i + 1 + m <= Len(b) /\ b[i + 1 + m] = 125}
         IN  IF ends = {} THEN 0 ELSE i + Max(ends) + 2

\* the end (exclusive) of the match of \{[^\x00]{10,500}\} at position i,
\* or 0: the longest run of 10 to 500 non-null bytes after the '{' that a
\* '}' follows
JSONMatchEnd(b, i) ==
    IF b[i] # 123 THEN 0
    ELSE LET run == RunLen(b, i + 1, NotNul, SpanMax)
             ends == {m \in SpanMin..run : i + 1 + m <= Len(b) /\ b[i + 1 + m] = 125}
         IN  IF ends = {} THEN 0 ELSE i + Max(ends) + 2

JsonFail == [ok |-> FALSE, val |-> <<>>, next |-> 0]

\* py_scanstring, strict: the text between the quote at p and the next
\* quote; a control character in it is an error
ScanString(t, p) ==
    LET q == RunEnd(t, p + 1, Byte \ {34}, Len(t))
    IN  IF q > Len(t) \/ \E k \in (p + 1)..(q - 1) : t[k] < 32
        THEN JsonFail
        ELSE [ok |-> TRUE, val |-> SubSeq(t, p + 1, q - 1), next |-> q + 1]

\* an unsigned JSON integer at p: 0, or a digit run with no leading zero;
\* the int is kept as its decimal digits
ScanNumber(t, p) ==
    LET e == IF t[p] = 48 THEN p + 1 ELSE RunEnd(t, p, Digit, Len(t))
    IN  [ok |-> TRUE,
         val |-> [type |-> "number", n |-> SubSeq(t, p, e - 1)],
         next |-> e]

\* pairs[key] = value on a dict kept as a list of <<key, value>>: a key
\* seen before keeps its place and takes the new value
SetMember(pairs, key, value) ==
    IF \E k \in 1..Len(pairs) : pairs[k][1] = key
    THEN [k \in 1..Len(pairs) |->
             IF pairs[k][1] = key THEN <<key, value>> ELSE pairs[k]]
    ELSE Append(pairs, <<key, value>>)

RECURSIVE ScanOnce(_, _)
RECURSIVE ScanMembers(_, _, _)
\* scan_once: the JSON value that starts at position p of t
ScanOnce(t, p) ==
    IF p > Len(t) THEN JsonFail
    ELSE IF t[p] = 34
    THEN LET s == ScanString(t, p)
         IN  IF s.ok
             THEN [ok |-> TRUE, val |-> [type |-> "string", s |-> s.val], next |-> s.next]
             ELSE JsonFail
    ELSE IF t[p] \in Digit THEN ScanNumber(t, p)
    ELSE IF t[p] = 123
    THEN LET q == RunEnd(t, p + 1, JsonSpace, Len(t))
         IN  IF q > Len(t) THEN JsonFail
             ELSE IF t[q] = 125
             THEN [ok |-> TRUE, val |-> [type |-> "object", members |-> <<>>],
                   next |-> q + 1]
             ELSE ScanMembers(t, q, <<>>)
    ELSE JsonFail

\* JSONObject's loop, at the quote that opens the next key: key, ':',
\* value, then '}' or ',' and the next key
ScanMembers(t, p, pairs) ==
    IF p > Len(t) \/ t[p] # 34 THEN JsonFail
    ELSE
    LET key == ScanString(t, p)
    IN  IF ~key.ok THEN JsonFail
        ELSE
        LET colon == RunEnd(t, key.next, JsonSpace, Len(t))
        IN  IF colon > Len(t) \/ t[colon] # 58 THEN JsonFail
            ELSE
            LET v == ScanOnce(t, RunEnd(t, colon + 1, JsonSpace, Len(t)))
            IN  IF ~v.ok THEN JsonFail
                ELSE
                LET after == RunEnd(t, v.next, JsonSpace, Len(t))
                    now == SetMember(pairs, key.val, v.val)
                IN  IF after > Len(t) THEN JsonFail
                    ELSE IF t[after] = 125
                    THEN [ok |-> TRUE, val |-> [type |-> "object", members |-> now],
                          next |-> after + 1]
                    ELSE IF t[after] = 44
                    THEN ScanMembers(t, RunEnd(t, after + 1, JsonSpace, Len(t)), now)
                    ELSE JsonFail

\* json.loads: one value with nothing but whitespace around it
json_loads(t) ==
    LET v == ScanOnce(t, RunEnd(t, 1, JsonSpace, Len(t)))
    IN  IF v.ok /\ RunEnd(t, v.next, JsonSpace, Len(t)) > Len(t) THEN v ELSE JsonFail

RECURSIVE JSONFindIter(_, _)
\* the loop over re.finditer(pattern, data): a span that parses is a
\* finding, a span that does not parse is passed over
JSONFindIter(b, pos) ==
    LET starts == {i \in pos..Len(b) : JSONMatchEnd(b, i) # 0}
    IN  IF starts = {} THEN <<>>
        ELSE LET i == Min(starts)
                 e == JSONMatchEnd(b, i)
                 parsed == json_loads(DecodeUtf8Ignore(SubSeq(b, i, e - 1)))
             IN  (IF parsed.ok THEN <<[offset |-> i - 1, data |-> parsed.val]>> ELSE <<>>)
                 \o JSONFindIter(b, e)

JSONExtractor_analyze(b) == [findings |-> JSONFindIter(b, 1)]

(***************************************************************************)
(* BSONFieldAnalyzer                                                       *)
(***************************************************************************)
BSONFieldAnalyzer_get_name == "BSONFieldAnalysis"

\* {1,50}: the most bytes of a name after its first
NameTailMax == 50

\* most_common(50)
TopFieldsCap == 50

\* field_names[:1000]
AllFieldsCap == 1000

\* [a-zA-Z_]
NameStart == Letter \cup {95}

\* [a-zA-Z0-9_\.]
NameChars == Letter \cup Digit \cup {95, 46}

\* the end (exclusive) of the match of ([a-zA-Z_][a-zA-Z0-9_\.]{1,50})\x00
\* at position i, or 0: the null byte must follow the whole run of name
\* bytes, which is 1 to 50 bytes long
BSONMatchEnd(b, i) ==
    IF b[i] \notin NameStart THEN 0
    ELSE LET tail == RunLen(b, i + 1, NameChars, NameTailMax + 1)
             nul == i + 1 + tail
         IN  IF tail >= 1 /\ tail <= NameTailMax /\ nul <= Len(b) /\ b[nul] = 0
             THEN nul + 1 ELSE 0

RECURSIVE BSONFindIter(_, _)
\* the loop over re.finditer(pattern, data): field_names
BSONFindIter(b, pos) ==
    LET starts == {i \in pos..Len(b) : BSONMatchEnd(b, i) # 0}
    IN  IF starts = {} THEN <<>>
        ELSE LET i == Min(starts)
                 e == BSONMatchEnd(b, i)
             IN  <<[offset |-> i - 1, name |-> DecodeUtf8Ignore(SubSeq(b, i, e - 2))]>>
                 \o BSONFindIter(b, e)

\* a variant of Counter that counts each distinct name once (a set of the
\* names in place of the Counter)
Counter_presence(names) ==
    LET first == {k \in 1..Len(names) : \A j \in 1..(k - 1) : names[j] # names[k]}
        order == Ascending(first)
    IN  [k \in 1..Len(order) |-> <<names[order[k]], 1>>]

\* Counter(names).items(): the distinct names in the order of their first
\* occurrence, each with its count
Counter(names) ==
    LET first == {k \in 1..Len(names) : \A j \in 1..(k - 1) : names[j] # names[k]}
        order == Ascending(first)
    IN  [k \in 1..Len(order) |->
            <<names[order[k]],
              Cardinality({j \in 1..Len(names) : names[j] = names[order[k]]})>>]

\* a variant of most_common that puts, of two names with equal counts, the
\* one encountered last first
most_common_latest(counter, n) ==
    Take(SortByCountDesc([k \in 1..Len(counter) |-> counter[Len(counter) + 1 - k]]), n)

\* Counter.most_common(n): the n items with the largest counts, largest
\* first, equal counts in the order of first occurrence
most_common(counter, n) == Take(SortByCountDesc(counter), n)

BSONFieldAnalyzer_analyze(b) ==
    LET field_names == BSONFindIter(b, 1)
        name_counts == Counter([k \in 1..Len(field_names) |-> field_names[k].name])
    IN  [total_fields |-> Len(field_names),
         unique_fields |-> Len(name_counts),
         top_fields |-> most_common(name_counts, TopFieldsCap),
         all_fields |-> Take(field_names, AllFieldsCap)]

(***************************************************************************)
(* EmailExtractor and IPAddressExtractor                                   *)
(***************************************************************************)
EmailExtractor_get_name == "EmailExtraction"

IPAddressExtractor_get_name == "IPExtraction"

\* [a-zA-Z0-9._%+-]
LocalChars == Letter \cup Digit \cup {46, 95, 37, 43, 45}

\* [a-zA-Z0-9.-]
DomainChars == Letter \cup Digit \cup {46, 45}

\* the end (exclusive) of the match of
\* [a-zA-Z0-9._%+-]+@[a-zA-Z0-9.-]+\.[a-zA-Z]{2,} at position i, or 0:
\* the local part runs up to the '@'; the domain is cut at its last '.'
\* that has a domain byte before it and two letters after it, and the
\* letters after that dot are all taken
EmailMatchEnd(b, i) ==
    LET at == RunEnd(b, i, LocalChars, Len(b))
    IN  IF at = i \/ at > Len(b) \/ b[at] # 64 THEN 0
        ELSE LET domEnd == RunEnd(b, at + 1, DomainChars, Len(b))
                 dots == {d \in (at + 2)..(domEnd - 1) :
                             b[d] = 46 /\ RunLen(b, d + 1, Letter, Len(b)) >= 2}
             IN  IF dots = {} THEN 0
                 ELSE RunEnd(b, Max(dots) + 1, Letter, Len(b))

RECURSIVE EmailFindIter(_, _)
\* the loop over re.finditer(pattern, data): the set emails
EmailFindIter(b, pos) ==
    LET starts == {i \in pos..Len(b) : EmailMatchEnd(b, i) # 0}
    IN  IF starts = {} THEN {}
        ELSE LET i == Min(starts)
                 e == EmailMatchEnd(b, i)
             IN  {DecodeUtf8Ignore(SubSeq(b, i, e - 1))} \cup EmailFindIter(b, e)

\* a variant of sorted with reverse=True
sorted_descending(values) ==
    [r \in 1..Cardinality(values) |->
        CHOOSE v \in values : Cardinality({w \in values : LexLess(v, w)}) = r - 1]

\* sorted(list(values)) of a set of texts: ascending
sorted(values) ==
    [r \in 1..Cardinality(values) |->
        CHOOSE v \in values : Cardinality({w \in values : LexLess(w, v)}) = r - 1]

EmailExtractor_analyze(b) == [findings |-> sorted(EmailFindIter(b, 1))]

\* \b at position i of b: a word byte on exactly one side
WordBoundary(b, i) ==
    (i > 1 /\ i - 1 <= Len(b) /\ b[i - 1] \in Word) # (i <= Len(b) /\ b[i] \in Word)

\* the end (exclusive) of [0-9]{1,3}\. at position i, or 0
OctetDot(b, i) ==
    IF i = 0 THEN 0
    ELSE LET e == RunEnd(b, i, Digit, 4)
         IN  IF e - i >= 1 /\ e - i <= 3 /\ e <= Len(b) /\ b[e] = 46 THEN e + 1 ELSE 0

\* the end (exclusive) of the match of \b(?:[0-9]{1,3}\.){3}[0-9]{1,3}\b
\* at position i, or 0
IPMatchEnd(b, i) ==
    IF ~WordBoundary(b, i) THEN 0
    ELSE LET last == OctetDot(b, OctetDot(b, OctetDot(b, i)))
         IN  IF last = 0 THEN 0
             ELSE LET e == RunEnd(b, last, Digit, 4)
                  IN  IF e - last >= 1 /\ e - last <= 3 /\ WordBoundary(b, e)
                      THEN e ELSE 0

\* ip.split('.')
SplitDots(t) ==
    LET dots == Ascending({k \in 1..Len(t) : t[k] = 46})
        from(n) == IF n = 1 THEN 1 ELSE dots[n - 1] + 1
        to(n) == IF n = Len(dots) + 1 THEN Len(t) ELSE dots[n] - 1
    IN  [n \in 1..(Len(dots) + 1) |-> SubSeq(t, from(n), to(n))]

RECURSIVE DigitsValue(_)
\* the number a text of decimal digits writes
DigitsValue(p) ==
    IF p = <<>> THEN 0
    ELSE 10 * DigitsValue(SubSeq(p, 1, Len(p) - 1)) + (p[Len(p)] - 48)

\* int(p): the number of a text of decimal digits; int raises
\* (ValueError) on the empty text and on any other byte
int(p) ==
    IF p = <<>> \/ \E k \in 1..Len(p) : p[k] \notin Digit
    THEN [raised |-> TRUE, value |-> 0]
    ELSE [raised |-> FALSE, value |-> DigitsValue(p)]

\* a variant of ValidIP without the range test: every candidate is kept
ValidIP_unchecked(parts) == "true"

\* all(0 <= int(p) <= 255 for p in parts): "true", "false", or "raise"
\* when the first part that is not in range is one int raises on
ValidIP(parts) ==
    LET bad == {k \in 1..Len(parts) :
                   \/ int(parts[k]).raised
                   \/ ~(0 <= int(parts[k]).value /\ int(parts[k]).value <= 255)}
    IN  IF bad = {} THEN "true"
        ELSE IF int(parts[Min(bad)]).raised THEN "raise" ELSE "false"

\* all(...) for the candidate ip.decode() comes to: "raise" when the
\* decoding or the validation raises
ValidCandidate(ip) ==
    IF ip.raised THEN "raise" ELSE ValidIP(SplitDots(ip.text))

\* the set ips after the candidate ip, given what the rest of the loop
\* comes to
IPCollect(ip, valid, rest) ==
    IF valid = "raise" \/ rest.raised THEN [raised |-> TRUE, ips |-> {}]
    ELSE IF valid = "true" THEN [raised |-> FALSE, ips |-> {ip.text} \cup rest.ips]
    ELSE rest

\* match.group(): the bytes from i to e (exclusive)
Group(b, i, e) == SubSeq(b, i, e - 1)

RECURSIVE IPFindIter(_, _)
\* one pass of the loop for the match at position i, and the passes after
IPFrom(b, i, e, ip) == IPCollect(ip, ValidCandidate(ip), IPFindIter(b, e))

IPAt(b, i, e) == IPFrom(b, i, e, DecodeUtf8Strict(Group(b, i, e)))

\* the loop over re.finditer(pattern, data): the set ips; raised when
\* decoding or validating a candidate raises
IPFindIter(b, pos) ==
    LET starts == {i \in pos..Len(b) : IPMatchEnd(b, i) # 0}
    IN  IF starts = {} THEN [raised |-> FALSE, ips |-> {}]
        ELSE IPAt(b, Min(starts), IPMatchEnd(b, Min(starts)))

\* what a call of analyze comes to: the result it returns, or the
\* message of the exception it raises
Returned(value) == [raised |-> FALSE, value |-> value, message |-> ""]

Raised(message) == [raised |-> TRUE, value |-> <<>>, message |-> message]

\* the dict analyze returns, or the exception of the loop
IPOutcome(found) ==
    IF found.raised THEN Raised("ValueError")
    ELSE Returned([findings |-> sorted(found.ips)])

IPAddressExtractor_analyze(b) == IPOutcome(IPFindIter(b, 1))

(***************************************************************************)
(* The analyzers as main() lists them, and their dispatch.                 *)
(***************************************************************************)
\* the list analyzers of main(): the analyzer classes in registration order
Builtins ==
    <<"HexDumpAnalyzer", "CredentialHunter", "BSONFieldAnalyzer", "StringExtractor",
      "JSONExtractor", "EmailExtractor", "IPAddressExtractor">>

AnalyzerClasses == {Builtins[k] : k \in 1..Len(Builtins)}

\* analyzer.get_name()
get_name(a) ==
    CASE a = "HexDumpAnalyzer" -> HexDumpAnalyzer_get_name
      [] a = "CredentialHunter" -> CredentialHunter_get_name
      [] a = "BSONFieldAnalyzer" -> BSONFieldAnalyzer_get_name
      [] a = "StringExtractor" -> StringExtractor_get_name
      [] a = "JSONExtractor" -> JSONExtractor_get_name
      [] a = "EmailExtractor" -> EmailExtractor_get_name
      [] a = "IPAddressExtractor" -> IPAddressExtractor_get_name

\* a variant of analyze in which HexDumpAnalyzer divides by total_size
\* without the test total_size > 0: ZeroDivisionError on the empty buffer
analyze_unguarded(a, b) ==
    CASE a = "HexDumpAnalyzer" ->
            IF b = <<>> THEN Raised("division by zero")
            ELSE Returned(HexDumpAnalyzer_analyze(b))
      [] a = "CredentialHunter" -> Returned(CredentialHunter_analyze(b))
      [] a = "BSONFieldAnalyzer" -> Returned(BSONFieldAnalyzer_analyze(b))
      [] a = "StringExtractor" -> Returned(StringExtractor_analyze(b))
      [] a = "JSONExtractor" -> Returned(JSONExtractor_analyze(b))
      [] a = "EmailExtractor" -> Returned(EmailExtractor_analyze(b))
      [] a = "IPAddressExtractor" -> IPAddressExtractor_analyze(b)

\* analyzer.analyze(data): what the call comes to
analyze(a, b) ==
    CASE a = "HexDumpAnalyzer" -> Returned(HexDumpAnalyzer_analyze(b))
      [] a = "CredentialHunter" -> Returned(CredentialHunter_analyze(b))
      [] a = "BSONFieldAnalyzer" -> Returned(BSONFieldAnalyzer_analyze(b))
      [] a = "StringExtractor" -> Returned(StringExtractor_analyze(b))
      [] a = "JSONExtractor" -> Returned(JSONExtractor_analyze(b))
      [] a = "EmailExtractor" -> Returned(EmailExtractor_analyze(b))
      [] a = "IPAddressExtractor" -> IPAddressExtractor_analyze(b)

(***************************************************************************)
(* Python dicts that keep insertion order: the keys in order, and the      *)
(* value of each key.                                                      *)
(***************************************************************************)
EmptyDict == [keys |-> <<>>, val |-> <<>>]

\* a variant of DictSet for a mapping that puts a new key first
DictSet_front(d, k, v) ==
    IF k \in DOMAIN d.val
    THEN [keys |-> d.keys, val |-> [x \in DOMAIN d.val |-> IF x = k THEN v ELSE d.val[x]]]
    ELSE [keys |-> <<k>> \o d.keys, val |-> (k :> v) @@ d.val]

\* d[k] = v: a new key goes last, a key already there keeps its place
DictSet(d, k, v) ==
    IF k \in DOMAIN d.val
    THEN [keys |-> d.keys, val |-> [x \in DOMAIN d.val |-> IF x = k THEN v ELSE d.val[x]]]
    ELSE [keys |-> Append(d.keys, k), val |-> (k :> v) @@ d.val]

\* {'error': str(e)}
ErrorRecord(message) == [error |-> message]

\* 'error' in result
IsErrorRecord(r) == "error" \in DOMAIN r

(***************************************************************************)
(* HTMLReportGenerator                                                     *)
(***************************************************************************)
\* the texts str(e) that an exception raised in analyze can carry
Messages == {"", "boom"}

\* the ways the analyze calls of one run can fail for reasons outside the
\* analyzer's own code (memory exhausted, an analyzer forced to raise):
\* each maps the positions of at most n of the registered analyzers to
\* the message of the exception
Faults(count, n) ==
    UNION {[S -> Messages] : S \in {T \in SUBSET (1..count) : Cardinality(T) <= n}}

\* the try block of analyze_all for the analyzer at position i: what
\* analyzer.analyze(data) comes to
TryAnalyze(i, a, b, faults) ==
    IF i \in DOMAIN faults THEN Raised(faults[i]) ELSE analyze(a, b)

\* why the call went the way it did
Cause(i, faults, outcome) ==
    IF i \in DOMAIN faults THEN "fault"
    ELSE IF outcome.raised THEN "raised" ELSE "returned"

\* a variant of StoreOutcome with "except Exception: pass": an analyzer
\* that raises leaves no entry
StoreOutcome_dropped(st, a, name, cause, outcome) ==
    [results |-> IF outcome.raised THEN st.results
                 ELSE DictSet(st.results, name, outcome.value),
     calls |-> st.calls \o <<[analyzer |-> a, event |-> "start", message |-> ""],
                              [analyzer |-> a, event |-> cause,
                               message |-> outcome.message]>>,
     stdout |-> st.stdout \o <<[tag |-> "running", name |-> name]>>]

\* the slot of the analyzer's name set to the result or to the error
\* record, and the lines the pass prints
StoreOutcome(st, a, name, cause, outcome) ==
    [results |-> DictSet(st.results, name,
                         IF outcome.raised THEN ErrorRecord(outcome.message)
                         ELSE outcome.value),
     calls |-> st.calls \o <<[analyzer |-> a, event |-> "start", message |-> ""],
                              [analyzer |-> a, event |-> cause,
                               message |-> outcome.message]>>,
     stdout |-> st.stdout
                \o <<[tag |-> "running", name |-> name]>>
                \o (IF outcome.raised THEN <<[tag |-> "failed", name |-> name]>>
                    ELSE <<>>)]

\* one pass of the loop body of analyze_all, for the analyzer at position i
AnalyzeStep(st, i, a, faults, outcome) ==
    StoreOutcome(st, a, get_name(a), Cause(i, faults, outcome), outcome)

AnalyzeOne(st, i, lst, b, faults) ==
    AnalyzeStep(st, i, lst[i], faults, TryAnalyze(i, lst[i], b, faults))

RECURSIVE AnalyzeFrom(_, _, _, _, _)
\* the loop of analyze_all from position i on
AnalyzeFrom(st, i, lst, b, faults) ==
    IF i > Len(lst) THEN st
    ELSE AnalyzeFrom(AnalyzeOne(st, i, lst, b, faults), i + 1, lst, b, faults)

\* the state analyze_all leaves behind
AnalyzeDone(st) ==
    /\ results' = st.results
    /\ calls' = st.calls
    /\ stdout' = st.stdout
    /\ runs' = runs + 1

\* generator.analyze_all(data)
analyze_all(faults) ==
    AnalyzeDone(AnalyzeFrom([results |-> results, calls |-> calls, stdout |-> stdout],
                            1, analyzers, data, faults))

\* generator.add_analyzer(analyzer)
add_analyzer(a) == analyzers' = Append(analyzers, a)

\* one section of the HTML report per key of results: the warning box
\* for an error record, the analyzer's layout for a result
HtmlSections(res) ==
    [k \in 1..Len(res.keys) |->
        [name |-> res.keys[k],
         body |-> IF IsErrorRecord(res.val[res.keys[k]]) THEN "warning" ELSE "result"]]

(***************************************************************************)
(* format_result of each analyzer: the text of its section in the text     *)
(* report, kept as its kind and the number of entries it lists, or the     *)
(* exception the call raises.                                              *)
(***************************************************************************)
\* result['findings'][:100] of StringExtractor.format_result
TextStringsCap == 100

\* items[:20] of CredentialHunter.format_result
TextCredentialsCap == 20

\* result['findings'][:50] of JSONExtractor.format_result
TextJsonCap == 50

Rendered(kind, shown) == [raised |-> "", kind |-> kind, shown |-> shown]

RenderRaised(exception) == [raised |-> exception, kind |-> "", shown |-> 0]

\* not result.get('findings')
NoFindings(r) == "findings" \notin DOMAIN r \/ r.findings = <<>>

AtMost(n, cap) == IF n < cap THEN n ELSE cap

StringExtractor_format_result(r) ==
    IF NoFindings(r) THEN Rendered("none", 0)
    ELSE Rendered("list", AtMost(Len(r.findings), TextStringsCap))

\* the loop over result.items(): under a key whose value is a text, the
\* items are its characters, and item['offset'] of a character raises
CredentialHunter_format_result(r) ==
    IF DOMAIN r = {} THEN Rendered("none", 0)
    ELSE IF IsErrorRecord(r)
    THEN IF r.error # "" THEN RenderRaised("TypeError") ELSE Rendered("list", 0)
    ELSE Rendered("list",
                  Cardinality({<<c, k>> \in (DOMAIN r) \X (1..TextCredentialsCap) :
                                  k <= Len(r[c])}))

JSONExtractor_format_result(r) ==
    IF NoFindings(r) THEN Rendered("none", 0)
    ELSE Rendered("list", AtMost(Len(r.findings), TextJsonCap))

\* not result.get('total_fields'), then result['unique_fields'] and
\* result['top_fields']
BSONFieldAnalyzer_format_result(r) ==
    IF "total_fields" \notin DOMAIN r \/ r.total_fields = 0 THEN Rendered("none", 0)
    ELSE IF "unique_fields" \notin DOMAIN r \/ "top_fields" \notin DOMAIN r
    THEN RenderRaised("KeyError")
    ELSE Rendered("list", Len(r.top_fields))

EmailExtractor_format_result(r) ==
    IF NoFindings(r) THEN Rendered("none", 0)
    ELSE Rendered("list", Len(r.findings))

IPAddressExtractor_format_result(r) ==
    IF NoFindings(r) THEN Rendered("none", 0)
    ELSE Rendered("list", Len(r.findings))

\* result['total_size'] and the other statistics, read without a check
HexDumpAnalyzer_format_result(r) ==
    IF {"total_size", "null_bytes", "null_percentage", "printable_bytes",
        "printable_percentage", "top_patterns"} \subseteq DOMAIN r
    THEN Rendered("stats", Len(r.top_patterns))
    ELSE RenderRaised("KeyError")

\* analyzer.format_result(result)
format_result(a, r) ==
    CASE a = "HexDumpAnalyzer" -> HexDumpAnalyzer_format_result(r)
      [] a = "CredentialHunter" -> CredentialHunter_format_result(r)
      [] a = "BSONFieldAnalyzer" -> BSONFieldAnalyzer_format_result(r)
      [] a = "StringExtractor" -> StringExtractor_format_result(r)
      [] a = "JSONExtractor" -> JSONExtractor_format_result(r)
      [] a = "EmailExtractor" -> EmailExtractor_format_result(r)
      [] a = "IPAddressExtractor" -> IPAddressExtractor_format_result(r)

\* generator.results.get(analyzer.get_name(), {})
ResultOf(res, a) ==
    IF get_name(a) \in DOMAIN res.val THEN res.val[get_name(a)] ELSE <<>>

\* the loop of main() that writes the text report: per analyzer the
\* header of its section, then its format_result; the first call that
\* raises ends the loop, its section left with the header alone
TextSections(lst, res) ==
    LET failing == {k \in 1..Len(lst) : format_result(lst[k], ResultOf(res, lst[k])).raised # ""}
        last == IF failing = {} THEN Len(lst) ELSE Min(failing)
    IN  [sections |->
            [k \in 1..last |->
                [name |-> get_name(lst[k]),
                 body |-> format_result(lst[k], ResultOf(res, lst[k]))]],
         raised |-> IF failing = {} THEN ""
                    ELSE format_result(lst[last], ResultOf(res, lst[last])).raised]

(***************************************************************************)
(* main()                                                                  *)
(***************************************************************************)
NoFile == [exists |-> FALSE, sections |-> <<>>]

Say(tag) == [tag |-> tag, name |-> ""]

\* the contents the input file can have
MainBuffers ==
    {<<>>,
     \* b'password: secret123 password: secret123'
     <<112,97,115,115,119,111,114,100,58,32,115,101,99,114,101,116,49,50,51,32,
       112,97,115,115,119,111,114,100,58,32,115,101,99,114,101,116,49,50,51>>,
     \* b'id\x00name\x00id\x00 a@b.io 10.0.0.1 {"a":111111}'
     <<105,100,0,110,97,109,101,0,105,100,0,32,97,64,98,46,105,111,32,
       49,48,46,48,46,48,46,49,32,123,34,97,34,58,49,49,49,49,49,49,125>>,
     \* b'\x00\x00\x00\x00user=bob\x00\x00\x00\x00\xff'
     <<0,0,0,0,117,115,101,114,61,98,111,98,0,0,0,0,255>>}

\* the state when main() is entered
Init ==
    /\ pc = "start"
    /\ fileState \in {"present", "missing", "unreadable"}
    /\ format \in {"txt", "html", "both"}
    /\ data = <<>>
    /\ analyzers = <<>>
    /\ results = EmptyDict
    /\ calls = <<>>
    /\ runs = 0
    /\ stdout = <<>>
    /\ txt = NoFile
    /\ html = NoFile
    /\ uncaught = "none"

\* open(args.input, 'rb') and f.read(): the file is read
ReadInput ==
    /\ pc = "start"
    /\ fileState = "present"
    /\ \E content \in MainBuffers : data' = content
    /\ stdout' = stdout \o <<Say("banner"), Say("reading"), Say("size")>>
    /\ pc' = "loaded"
    /\ UNCHANGED <<fileState, format, analyzers, results, calls, runs, txt, html, uncaught>>

\* except FileNotFoundError: the error and the hint are printed, main returns
InputMissing ==
    /\ pc = "start"
    /\ fileState = "missing"
    /\ stdout' = stdout \o <<Say("banner"), Say("reading"), Say("error"), Say("hint")>>
    /\ pc' = "returned"
    /\ UNCHANGED <<fileState, format, data, analyzers, results, calls, runs, txt, html,
                   uncaught>>

\* open raises another OSError (PermissionError, IsADirectoryError): no
\* except clause takes it, and it leaves main
InputUnreadable ==
    /\ pc = "start"
    /\ fileState = "unreadable"
    /\ stdout' = stdout \o <<Say("banner"), Say("reading")>>
    /\ uncaught' = "OSError"
    /\ pc' = "crashed"
    /\ UNCHANGED <<fileState, format, data, analyzers, results, calls, runs, txt, html>>

\* generator = HTMLReportGenerator() and the loop over add_analyzer
Register ==
    /\ pc = "loaded"
    /\ analyzers' = Builtins
    /\ results' = EmptyDict
    /\ pc' = "registered"
    /\ UNCHANGED <<fileState, format, data, calls, runs, stdout, txt, html, uncaught>>

\* generator.analyze_all(data)
RunAnalyzers ==
    /\ pc = "registered"
    /\ \E faults \in Faults(Len(analyzers), MaxFaults) : analyze_all(faults)
    /\ pc' = "analyzed"
    /\ UNCHANGED <<fileState, format, data, analyzers, txt, html, uncaught>>

\* if args.format in ['txt', 'both']: the text report
WriteText ==
    /\ pc = "analyzed"
    /\ IF format \in {"txt", "both"}
       THEN LET report == TextSections(Builtins, results)
            IN  /\ txt' = [exists |-> TRUE, sections |-> report.sections]
                /\ stdout' = Append(stdout, Say("text"))
                /\ IF report.raised = ""
                   THEN pc' = "text_done" /\ UNCHANGED uncaught
                   ELSE pc' = "crashed" /\ uncaught' = report.raised
       ELSE pc' = "text_done" /\ UNCHANGED <<txt, stdout, uncaught>>
    /\ UNCHANGED <<fileState, format, data, analyzers, results, calls, runs, html>>

\* if args.format in ['html', 'both']: generate_html; then the closing lines
WriteHtml ==
    /\ pc = "text_done"
    /\ IF format \in {"html", "both"}
       THEN /\ html' = [exists |-> TRUE, sections |-> HtmlSections(results)]
            /\ stdout' = stdout \o <<Say("html"), Say("html_done"), Say("complete")>>
       ELSE /\ html' = html
            /\ stdout' = Append(stdout, Say("complete"))
    /\ pc' = "returned"
    /\ UNCHANGED <<fileState, format, data, analyzers, results, calls, runs, txt, uncaught>>

Next ==
    \/ ReadInput
    \/ InputMissing
    \/ InputUnreadable
    \/ Register
    \/ RunAnalyzers
    \/ WriteText
    \/ WriteHtml

Spec == Init /\ [][Next]_vars


(***************************************************************************)
(* HTMLReportGenerator used directly: analyzers are registered one by one, *)
(* any class any number of times, and analyze_all is called on the same    *)
(* generator more than once, with registrations in between.                *)
(***************************************************************************)
\* the buffers analyze_all is given
AggBuffers ==
    {<<>>,
     \* b'id\x00 a@b.io 10.0.0.1'
     <<105,100,0,32,97,64,98,46,105,111,32,49,48,46,48,46,48,46,49>>}

\* the classes that are registered
AggClasses == {"HexDumpAnalyzer", "EmailExtractor", "IPAddressExtractor"}

\* HTMLReportGenerator(): no analyzers, no results
InitAgg ==
    /\ pc = "registering"
    /\ fileState = "present"
    /\ format = "both"
    /\ data \in AggBuffers
    /\ analyzers = <<>>
    /\ results = EmptyDict
    /\ calls = <<>>
    /\ runs = 0
    /\ stdout = <<>>
    /\ txt = NoFile
    /\ html = NoFile
    /\ uncaught = "none"

\* generator.add_analyzer(a), before or after a call of analyze_all
AddAnalyzer ==
    /\ pc \in {"registering", "ran"}
    /\ Len(analyzers) < MaxAnalyzers
    /\ \E a \in AggClasses : add_analyzer(a)
    /\ pc' = "registering"
    /\ UNCHANGED <<fileState, format, data, results, calls, runs, stdout, txt, html,
                   uncaught>>

\* generator.analyze_all(data), for the first time or again
RunAll ==
    /\ pc \in {"registering", "ran"}
    /\ runs < MaxRuns
    /\ \E faults \in Faults(Len(analyzers), MaxFaults) : analyze_all(faults)
    /\ pc' = "ran"
    /\ UNCHANGED <<fileState, format, data, analyzers, txt, html, uncaught>>

NextAgg ==
    \/ AddAnalyzer
    \/ RunAll

SpecAgg == InitAgg /\ [][NextAgg]_vars


(***************************************************************************)
(* One analyzer applied to one buffer: a generator with that analyzer      *)
(* alone, and analyze_all on the buffer.  The buffers are the              *)
(* concatenations of a few segments that hold the pattern's cases.         *)
(***************************************************************************)
\* the concatenations of at most n of the segments
Buffers(segments, n) ==
    {Concat(s) : s \in UNION {[1..k -> segments] : k \in 0..n}}

\* the state before the analyzer is applied to a buffer of the family
InitUnit(family) ==
    /\ pc = "unit"
    /\ fileState = "present"
    /\ format = "both"
    /\ data \in family
    /\ analyzers = <<>>
    /\ results = EmptyDict
    /\ calls = <<>>
    /\ runs = 0
    /\ stdout = <<>>
    /\ txt = NoFile
    /\ html = NoFile
    /\ uncaught = "none"

\* generator.add_analyzer(a) and generator.analyze_all(data)
UnitAnalyze(a) ==
    /\ pc = "unit"
    /\ add_analyzer(a)
    /\ AnalyzeDone(AnalyzeFrom([results |-> results, calls |-> calls, stdout |-> stdout],
                               1, <<a>>, data, <<>>))
    /\ pc' = "analyzed"
    /\ UNCHANGED <<fileState, format, data, txt, html, uncaught>>

\* EmailExtractor and IPAddressExtractor
MaxNetSegs == 3

NetSegments ==
    {<<97,64,98,46,105,111,32>>,          \* b'a@b.io '
     <<98,64,97,46,105,111,32>>,          \* b'b@a.io '
     <<49,48,46,48,46,48,46,49,32>>,      \* b'10.0.0.1 '
     <<57,46,57,46,57,46,57,32>>,         \* b'9.9.9.9 '
     <<50,53,54,46,49,46,49,46,49,32>>,   \* b'256.1.1.1 '
     <<49,46,50,46,51,46,52>>,            \* b'1.2.3.4'
     <<46>>,                              \* b'.'
     <<53>>,                              \* b'5'
     <<120>>}                             \* b'x'

NetBuffers == Buffers(NetSegments, MaxNetSegs)

InitNet == InitUnit(NetBuffers)

AnalyzeEmail == UnitAnalyze("EmailExtractor")

AnalyzeIP == UnitAnalyze("IPAddressExtractor")

NextNet ==
    \/ AnalyzeEmail
    \/ AnalyzeIP

SpecNet == InitNet /\ [][NextNet]_vars

\* BSONFieldAnalyzer
MaxBsonSegs == 4

BsonSegments ==
    {<<105,100,0>>,                       \* b'id\x00'
     <<110,97,109,101,0>>,                \* b'name\x00'
     <<120,46,121,0>>,                    \* b'x.y\x00'
     <<95>>,                              \* b'_'
     <<57>>,                              \* b'9'
     <<0>>,                               \* b'\x00'
     <<32>>,                              \* b' '
     [k \in 1..NameTailMax |-> 113]}      \* b'q' * 50

MaxFields == 52

\* n different two-letter names, each followed by a null byte, then the
\* r-th of them once more: b'aa\x00ab\x00ac\x00...'
ManyFields(n, r) ==
    Concat([k \in 1..(n + 1) |->
               LET m == IF k <= n THEN k ELSE r
               IN  <<97 + ((m - 1) \div 26), 97 + ((m - 1) % 26), 0>>])

BsonBuffers ==
    Buffers(BsonSegments, MaxBsonSegs)
        \cup UNION {{ManyFields(n, 1), ManyFields(n, n)} : n \in 1..MaxFields}

InitBSON == InitUnit(BsonBuffers)

AnalyzeBSON == UnitAnalyze("BSONFieldAnalyzer")

NextBSON == AnalyzeBSON

SpecBSON == InitBSON /\ [][NextBSON]_vars

\* CredentialHunter
MaxCredSegs == 4

MaxPasswords == 21

CredSegments ==
    {<<112,97,115,115,119,111,114,100,58,32,115,101,99,114,101,116,49,50,51>>,
                                          \* b'password: secret123'
     <<32>>,                              \* b' '
     <<112,119,100,61>>,                  \* b'pwd='
     <<115,101,99,114,101,116,49,50,51>>, \* b'secret123'
     <<122>>,                             \* b'z'
     <<112,119,100,61>> \o [k \in 1..ValueCap |-> 121]}
                                          \* b'pwd=' + b'y' * 200

\* b'pwd=aaaa pwd=aaab ...': n passwords, each different
ManyPasswords(n) ==
    Concat([k \in 1..n |-> <<112,119,100,61,97,97,97,96 + k,32>>])

CredBuffers ==
    Buffers(CredSegments, MaxCredSegs) \cup {ManyPasswords(n) : n \in 1..MaxPasswords}

InitCred == InitUnit(CredBuffers)

AnalyzeCred == UnitAnalyze("CredentialHunter")

NextCred == AnalyzeCred

SpecCred == InitCred /\ [][NextCred]_vars


(***************************************************************************)
(* Properties of the aggregator (SpecAgg).                                 *)
(***************************************************************************)
\* the names of the registered analyzers, in registration order
RegisteredNames == [i \in 1..Len(analyzers) |-> get_name(analyzers[i])]

\* no two registered analyzers share a name
DistinctNames ==
    \A i, j \in 1..Len(analyzers) : i # j => RegisteredNames[i] # RegisteredNames[j]

\* where in calls the last call of analyze_all begins
LastRun == Len(calls) - 2 * Len(analyzers)

\* C1: when the registered analyzers have distinct names, analyze_all
\* calls every one of them, whichever of them raise, and leaves exactly
\* one entry per analyzer: the error record with the exception's message
\* for an analyzer that raised, the analyzer's own result for any other
C1_EveryAnalyzerHasItsEntry ==
    (pc = "ran" /\ DistinctNames) =>
        /\ Len(results.keys) = Len(analyzers)
        /\ \A i \in 1..Len(analyzers) :
            /\ calls[LastRun + 2 * i - 1].analyzer = analyzers[i]
            /\ calls[LastRun + 2 * i - 1].event = "start"
            /\ calls[LastRun + 2 * i].analyzer = analyzers[i]
            /\ RegisteredNames[i] \in DOMAIN results.val
            /\ results.val[RegisteredNames[i]] =
                   IF calls[LastRun + 2 * i].event \in {"fault", "raised"}
                   THEN ErrorRecord(calls[LastRun + 2 * i].message)
                   ELSE analyze(analyzers[i], data).value

\* C1, its case: the first of several analyzers raises and a later one
\* returns its result
C1_Witness ==
    /\ pc = "ran"
    /\ DistinctNames
    /\ Len(analyzers) >= 2
    /\ calls[LastRun + 2].event = "fault"
    /\ IsErrorRecord(results.val[RegisteredNames[1]])
    /\ calls[LastRun + 4].event = "returned"
    /\ ~IsErrorRecord(results.val[RegisteredNames[2]])

\* the registered names in the order in which each was first registered
FirstRegistered ==
    LET first == {k \in 1..Len(analyzers) :
                     \A j \in 1..(k - 1) : RegisteredNames[j] # RegisteredNames[k]}
    IN  [k \in 1..Cardinality(first) |-> RegisteredNames[Ascending(first)[k]]]

\* C2: analyze_all calls the analyzers in registration order, each call
\* ended before the next begins, and the keys of results are then the
\* registered names in registration order (each name where it was first
\* registered, which is the list of names itself when they are all
\* different), after a first call and after a later one, with or without
\* failures
C2_RegistrationOrderKept ==
    pc = "ran" =>
        /\ results.keys = FirstRegistered
        /\ DistinctNames => results.keys = RegisteredNames
        /\ \A i \in 1..Len(analyzers) :
            /\ calls[LastRun + 2 * i - 1].analyzer = analyzers[i]
            /\ calls[LastRun + 2 * i - 1].event = "start"
            /\ calls[LastRun + 2 * i].analyzer = analyzers[i]
            /\ calls[LastRun + 2 * i].event # "start"

\* C2, its case: analyze_all called a second time, after an analyzer was
\* registered behind those of the first call, and one analyzer failing
C2_Witness ==
    /\ pc = "ran"
    /\ DistinctNames
    /\ runs = 2
    /\ Len(analyzers) >= 2
    /\ LastRun < 2 * Len(analyzers)
    /\ LastRun > 0
    /\ \E i \in 1..Len(analyzers) : calls[LastRun + 2 * i].event = "fault"
    /\ results.keys = RegisteredNames


(***************************************************************************)
(* Properties of main() (Spec).                                            *)
(***************************************************************************)
\* C3: once analyze_all has run and the text report is asked for, the
\* report is written to its end whatever slots hold an error record: no
\* exception leaves main(), and the file has a section for each of the
\* seven analyzers, in the order of the list, each with the text its
\* format_result returned
C3_TextReportCompletes ==
    (runs = 1 /\ format \in {"txt", "both"} /\ pc \in {"text_done", "returned", "crashed"}) =>
        /\ uncaught = "none"
        /\ txt.exists
        /\ Len(txt.sections) = Len(Builtins)
        /\ \A k \in 1..Len(txt.sections) :
            /\ txt.sections[k].name = get_name(Builtins[k])
            /\ txt.sections[k].body.raised = ""

\* C4: when the input file is missing or cannot be read, main() reports
\* the error once and returns: no exception leaves it, no analyzer is
\* called, and neither report file is written
C4_InputErrorHandled ==
    (fileState \in {"missing", "unreadable"} /\ pc # "start") =>
        /\ pc = "returned"
        /\ uncaught = "none"
        /\ Cardinality({k \in 1..Len(stdout) : stdout[k].tag = "error"}) = 1
        /\ calls = <<>>
        /\ ~txt.exists
        /\ ~html.exists

\* the result of analyzer a that holds no finding, with its statistics
\* at zero
NothingFound(a, r) ==
    CASE a = "HexDumpAnalyzer" ->
            r = [total_size |-> 0, null_bytes |-> 0, null_percentage |-> 0,
                 printable_bytes |-> 0, printable_percentage |-> 0,
                 top_patterns |-> <<>>]
      [] a = "CredentialHunter" -> DOMAIN r = {}
      [] a = "BSONFieldAnalyzer" ->
            r = [total_fields |-> 0, unique_fields |-> 0, top_fields |-> <<>>,
                 all_fields |-> <<>>]
      [] a = "StringExtractor" -> r = [total_strings |-> 0, findings |-> <<>>]
      [] a \in {"JSONExtractor", "EmailExtractor", "IPAddressExtractor"} ->
            r = [findings |-> <<>>]

\* C9: on the empty buffer every analyzer whose call is not made to fail
\* from outside returns, and its slot holds a result without findings, not
\* an error record; the slot of HexDumpAnalyzer holds total_size 0, both
\* percentages 0 and an empty chunk table
C9_EmptyBufferFindsNothing ==
    (runs = 1 /\ data = <<>>) =>
        \A i \in 1..Len(Builtins) :
            calls[2 * i].event # "fault" =>
                /\ calls[2 * i].analyzer = Builtins[i]
                /\ calls[2 * i].event = "returned"
                /\ get_name(Builtins[i]) \in DOMAIN results.val
                /\ ~IsErrorRecord(results.val[get_name(Builtins[i])])
                /\ NothingFound(Builtins[i], results.val[get_name(Builtins[i])])

\* C9, its case: all seven analyzers have run on the empty buffer, none
\* made to fail
C9_Witness ==
    /\ pc = "analyzed"
    /\ data = <<>>
    /\ Len(calls) = 2 * Len(Builtins)
    /\ \A k \in 1..Len(calls) : calls[k].event # "fault"
    /\ results.val[HexDumpAnalyzer_get_name].total_size = 0


(***************************************************************************)
(* Properties of the analyzers, each applied to a buffer of its family     *)
(* (SpecCred, SpecNet, SpecBSON).                                          *)
(***************************************************************************)
\* C5: every list stored in a result is held to a fixed cap, however many
\* matches the buffer gives: for CredentialHunter, no category's list is
\* longer than the cap its code applies to that list, the 20 of
\* format_result
C5_CredentialListsCapped ==
    CredentialHunter_get_name \in DOMAIN results.val =>
        \A c \in DOMAIN results.val[CredentialHunter_get_name] :
            Len(results.val[CredentialHunter_get_name][c]) <= TextCredentialsCap

\* the index in items of the first finding with value v
FirstWith(items, v) == Min({k \in 1..Len(items) : items[k].value = v})

\* the list stored for a category, given the findings of its patterns one
\* after another: every value once, no value over 200 characters, each
\* entry the first finding of its value, the entries in the order of
\* those first findings
FirstOfEachValue(stored, raw) ==
    /\ \A i, j \in 1..Len(stored) : i # j => stored[i].value # stored[j].value
    /\ \A k \in 1..Len(raw) : \E j \in 1..Len(stored) : stored[j].value = raw[k].value
    /\ \A j \in 1..Len(stored) :
        /\ Len(stored[j].value) <= ValueCap
        /\ \E k \in 1..Len(raw) : raw[k].value = stored[j].value
        /\ stored[j] = raw[FirstWith(raw, stored[j].value)]
    /\ \A i, j \in 1..Len(stored) :
        i < j => FirstWith(raw, stored[i].value) < FirstWith(raw, stored[j].value)

\* b'password: secret123 password: secret123'
PasswordTwice ==
    <<112,97,115,115,119,111,114,100,58,32,115,101,99,114,101,116,49,50,51,32,
      112,97,115,115,119,111,114,100,58,32,115,101,99,114,101,116,49,50,51>>

\* C10: for every buffer and every category, the stored list holds each
\* captured value, cut to 200 characters, exactly once, as the finding of
\* its first occurrence in the scan of the category's patterns in
\* declaration order; and b'password: secret123 password: secret123'
\* gives one passwords entry, value 'secret123' at offset 0
C10_FirstOccurrenceKept ==
    CredentialHunter_get_name \in DOMAIN results.val =>
        /\ ~IsErrorRecord(results.val[CredentialHunter_get_name])
        /\ \A k \in 1..Len(Categories) :
            IF CategoryFindings(data, Categories[k]) = <<>>
            THEN Categories[k] \notin DOMAIN results.val[CredentialHunter_get_name]
            ELSE /\ Categories[k] \in DOMAIN results.val[CredentialHunter_get_name]
                 /\ FirstOfEachValue(results.val[CredentialHunter_get_name][Categories[k]],
                                     CategoryFindings(data, Categories[k]))
        /\ data = PasswordTwice =>
               results.val[CredentialHunter_get_name] =
                   [c \in {"passwords"} |->
                       <<[offset |-> 0,
                          value |-> <<115,101,99,114,101,116,49,50,51>>]>>]

\* C10, its case: the buffer of the example analysed, its two matches
\* stored as one entry
C10_Witness ==
    /\ data = PasswordTwice
    /\ CredentialHunter_get_name \in DOMAIN results.val
    /\ Len(CategoryFindings(data, "passwords")) = 2
    /\ Len(results.val[CredentialHunter_get_name]["passwords"]) = 1

\* the four components of a dotted quad are decimal numbers from 0 to 255
InRange(ip) ==
    /\ Len(SplitDots(ip)) = 4
    /\ \A j \in 1..Len(SplitDots(ip)) :
        /\ ~int(SplitDots(ip)[j]).raised
        /\ int(SplitDots(ip)[j]).value \in 0..255

\* C6: for every buffer, IPAddressExtractor.analyze returns without
\* raising, and every entry of its findings is a dotted quad of four
\* numbers from 0 to 255: a candidate with a component above 255 is not
\* reported
C6_ReportedIPsInRange ==
    IPAddressExtractor_get_name \in DOMAIN results.val =>
        /\ ~IsErrorRecord(results.val[IPAddressExtractor_get_name])
        /\ \A k \in 1..Len(results.val[IPAddressExtractor_get_name].findings) :
            InRange(results.val[IPAddressExtractor_get_name].findings[k])

\* C6, its case: the pattern matches a candidate with a component above
\* 255, which is left out, next to one that is reported
C6_Witness ==
    /\ IPAddressExtractor_get_name \in DOMAIN results.val
    /\ ~IsErrorRecord(results.val[IPAddressExtractor_get_name])
    /\ Len(results.val[IPAddressExtractor_get_name].findings) >= 1
    /\ \E i \in 1..Len(data) :
        /\ IPMatchEnd(data, i) # 0
        /\ ~InRange(Group(data, i, IPMatchEnd(data, i)))
        /\ \A k \in 1..Len(results.val[IPAddressExtractor_get_name].findings) :
            results.val[IPAddressExtractor_get_name].findings[k]
                # Group(data, i, IPMatchEnd(data, i))

\* each entry of the list is below the next in the order of Python's str
StrictlyAscending(findings) ==
    \A k \in 1..(Len(findings) - 1) : LexLess(findings[k], findings[k + 1])

\* C7: for every buffer, the findings of EmailExtractor and those of
\* IPAddressExtractor are strictly ascending in lexicographic order, so
\* hold no value twice
C7_FindingsStrictlyAscending ==
    \A name \in {EmailExtractor_get_name, IPAddressExtractor_get_name} :
        (name \in DOMAIN results.val /\ ~IsErrorRecord(results.val[name])) =>
            StrictlyAscending(results.val[name].findings)

\* C7, its case: b'b@a.io a@b.io b@a.io ', a value twice and the larger
\* value first, gives the two values in ascending order
C7_Witness ==
    /\ data = <<98,64,97,46,105,111,32,97,64,98,46,105,111,32,98,64,97,46,105,111,32>>
    /\ EmailExtractor_get_name \in DOMAIN results.val
    /\ results.val[EmailExtractor_get_name].findings =
           <<<<97,64,98,46,105,111>>, <<98,64,97,46,105,111>>>>

\* the number of entries of all_fields with the name
Occurrences(all_fields, name) ==
    Cardinality({j \in 1..Len(all_fields) : all_fields[j].name = name})

\* C8: for every buffer, the result of BSONFieldAnalyzer has
\* unique_fields <= total_fields, and when all_fields is not cut
\* (total_fields <= 1000) every name of top_fields occurs in all_fields as
\* many times as its count says
C8_FieldCountsAgree ==
    BSONFieldAnalyzer_get_name \in DOMAIN results.val =>
        /\ ~IsErrorRecord(results.val[BSONFieldAnalyzer_get_name])
        /\ results.val[BSONFieldAnalyzer_get_name].unique_fields
               <= results.val[BSONFieldAnalyzer_get_name].total_fields
        /\ results.val[BSONFieldAnalyzer_get_name].total_fields <= AllFieldsCap =>
               \A k \in 1..Len(results.val[BSONFieldAnalyzer_get_name].top_fields) :
                   Occurrences(results.val[BSONFieldAnalyzer_get_name].all_fields,
                               results.val[BSONFieldAnalyzer_get_name].top_fields[k][1])
                       = results.val[BSONFieldAnalyzer_get_name].top_fields[k][2]

\* C8, its case: a name found twice and another found once
C8_Witness ==
    /\ BSONFieldAnalyzer_get_name \in DOMAIN results.val
    /\ results.val[BSONFieldAnalyzer_get_name].total_fields = 3
    /\ results.val[BSONFieldAnalyzer_get_name].unique_fields = 2
    /\ results.val[BSONFieldAnalyzer_get_name].top_fields[1][2] = 2
    /\ results.val[BSONFieldAnalyzer_get_name].top_fields[2][2] = 1


(***************************************************************************)
(* HexDumpAnalyzer applied to one buffer (SpecHex).                        *)
(***************************************************************************)
MaxHexSegs == 4

HexSegments ==
    {<<65,65,65,65>>,                     \* b'AAAA'
     <<66,66,66,66>>,                     \* b'BBBB'
     <<0,0>>,                             \* b'\x00\x00'
     <<65>>}                              \* b'A'

InitHex == InitUnit(Buffers(HexSegments, MaxHexSegs))

NextHex == UnitAnalyze("HexDumpAnalyzer")

SpecHex == InitHex /\ [][NextHex]_vars

RECURSIVE SumCounts(_)
\* the sum of the counts of a list of (chunk, count) pairs
SumCounts(items) ==
    IF items = <<>> THEN 0 ELSE Head(items)[2] + SumCounts(Tail(items))

\* C11: the chunk table counts every complete 4-byte chunk at the offsets
\* 0, 4, 8, ...: top_patterns has at most 10 entries, with counts that do
\* not increase down the list, and when it holds the whole table (fewer
\* than 10 entries) its counts sum to floor(n / 4) for a buffer of n
\* bytes, also when n is a multiple of 4
C11_EveryChunkCounted ==
    HexDumpAnalyzer_get_name \in DOMAIN results.val =>
        /\ Len(results.val[HexDumpAnalyzer_get_name].top_patterns) <= TopPatternsCap
        /\ \A k \in 1..(Len(results.val[HexDumpAnalyzer_get_name].top_patterns) - 1) :
            results.val[HexDumpAnalyzer_get_name].top_patterns[k][2]
                >= results.val[HexDumpAnalyzer_get_name].top_patterns[k + 1][2]
        /\ Len(results.val[HexDumpAnalyzer_get_name].top_patterns) < TopPatternsCap =>
               SumCounts(results.val[HexDumpAnalyzer_get_name].top_patterns)
                   = Len(data) \div 4


(***************************************************************************)
(* JSONExtractor applied to one buffer (SpecJSON).                         *)
(***************************************************************************)
MaxJsonSegs == 3

\* b'{"a":"' + b'x' * (n - 6) + b'"}': a record with n bytes between its
\* braces
LongRecord(n) ==
    <<123,34,97,34,58,34>> \o [k \in 1..(n - 6) |-> 120] \o <<34,125>>

JsonSegments ==
    {<<123,34,97,34,58,49,50,51,52,125>>,          \* b'{"a":1234}', 10 bytes
     <<123,34,97,34,58,49,50,51,52,53,125>>,       \* b'{"a":12345}', 11 bytes
     <<123,34,97,34,58,49,50,51,52,53,54,125>>,    \* b'{"a":123456}', 12 bytes
     <<0>>,                                        \* b'\x00'
     <<125>>,                                      \* b'}'
     <<120>>}                                      \* b'x'

InitJSON ==
    InitUnit(Buffers(JsonSegments, MaxJsonSegs)
                 \cup {LongRecord(n) : n \in (SpanMax - 1)..(SpanMax + 1)})

NextJSON == UnitAnalyze("JSONExtractor")

SpecJSON == InitJSON /\ [][NextJSON]_vars

\* the finding f comes from a span of lo to hi bytes, braces included: the
\* span starts with '{' at f's offset, ends with '}', holds no null byte,
\* and parses to f's data
FromSpan(f, lo, hi) ==
    \E n \in lo..hi :
        /\ f.offset + n <= Len(data)
        /\ data[f.offset + 1] = 123
        /\ data[f.offset + n] = 125
        /\ \A k \in (f.offset + 1)..(f.offset + n) : data[k] # 0
        /\ json_loads(DecodeUtf8Ignore(SubSeq(data, f.offset + 1, f.offset + n))).ok
        /\ json_loads(DecodeUtf8Ignore(SubSeq(data, f.offset + 1, f.offset + n))).val
               = f.data

\* C12, as stated: every reported record comes from a span that starts
\* with '{' at the reported offset, ends with '}', holds no null byte and
\* is 10 to 500 bytes long
C12_SpanOfTenToFiveHundred ==
    JSONExtractor_get_name \in DOMAIN results.val =>
        \A k \in 1..Len(results.val[JSONExtractor_get_name].findings) :
            FromSpan(results.val[JSONExtractor_get_name].findings[k], SpanMin, SpanMax)

\* C12, amended: every reported record comes from a span that starts with
\* '{' at the reported offset, ends with '}', holds no null byte and has
\* 10 to 500 bytes between the braces, so is 12 to 502 bytes long; a span
\* of 10 or 11 bytes is never reported
C12_TenToFiveHundredBetweenBraces ==
    JSONExtractor_get_name \in DOMAIN results.val =>
        /\ ~IsErrorRecord(results.val[JSONExtractor_get_name])
        /\ \A k \in 1..Len(results.val[JSONExtractor_get_name].findings) :
            /\ FromSpan(results.val[JSONExtractor_get_name].findings[k],
                        SpanMin + 2, SpanMax + 2)
            /\ ~FromSpan(results.val[JSONExtractor_get_name].findings[k],
                         1, SpanMin + 1)

\* C12, its case: a record of 502 bytes, 500 of them between the braces,
\* is reported
C12_Witness ==
    /\ data = LongRecord(SpanMax)
    /\ JSONExtractor_get_name \in DOMAIN results.val
    /\ Len(results.val[JSONExtractor_get_name].findings) = 1
    /\ results.val[JSONExtractor_get_name].findings[1].offset = 0


(***************************************************************************)
(* The table top_fields of BSONFieldAnalyzer (SpecBSON).                   *)
(***************************************************************************)
\* the index in all_fields of the first entry with the name
FirstAt(all_fields, name) ==
    Min({j \in 1..Len(all_fields) : all_fields[j].name = name})

\* the name x with count c goes before the name y with count d: a larger
\* count, or the same count and encountered first
GoesBefore(all_fields, x, c, y, d) ==
    \/ c > d
    \/ c = d /\ FirstAt(all_fields, x) < FirstAt(all_fields, y)

\* the table top lists min(unique, 50) different names of all_fields with
\* their counts, each entry going before the next, and every name that
\* is left out goes after every entry
TopOfTheNames(top, all_fields, unique) ==
    /\ Len(top) <= TopFieldsCap
    /\ Len(top) = IF unique < TopFieldsCap THEN unique ELSE TopFieldsCap
    /\ \A k \in 1..Len(top) :
        /\ Occurrences(all_fields, top[k][1]) >= 1
        /\ top[k][2] = Occurrences(all_fields, top[k][1])
    /\ \A k \in 1..(Len(top) - 1) :
        /\ top[k][2] >= top[k + 1][2]
        /\ GoesBefore(all_fields, top[k][1], top[k][2], top[k + 1][1], top[k + 1][2])
    /\ \A j \in 1..Len(all_fields) :
        (\A k \in 1..Len(top) : top[k][1] # all_fields[j].name) =>
            \A k \in 1..Len(top) :
                GoesBefore(all_fields, top[k][1], top[k][2], all_fields[j].name,
                           Occurrences(all_fields, all_fields[j].name))

\* C13: top_fields lists at most 50 (name, count) pairs, the counts not
\* increasing down the list, names with equal counts in the order in
\* which they were first encountered; the names it leaves out have
\* counts no higher than any it lists, and of the names tied at the
\* cut-off those encountered first are the ones listed
C13_TopFieldsRanked ==
    BSONFieldAnalyzer_get_name \in DOMAIN results.val =>
        TopOfTheNames(results.val[BSONFieldAnalyzer_get_name].top_fields,
                      results.val[BSONFieldAnalyzer_get_name].all_fields,
                      results.val[BSONFieldAnalyzer_get_name].unique_fields)

\* C13, its case: 52 names compete, the last of them found twice and the
\* others once: the last is listed first, then the first 49, and the
\* 50th and 51st are left out
C13_Witness ==
    /\ BSONFieldAnalyzer_get_name \in DOMAIN results.val
    /\ results.val[BSONFieldAnalyzer_get_name].unique_fields = TopFieldsCap + 2
    /\ Len(results.val[BSONFieldAnalyzer_get_name].top_fields) = TopFieldsCap
    /\ results.val[BSONFieldAnalyzer_get_name].top_fields[1]
           = <<results.val[BSONFieldAnalyzer_get_name].all_fields[TopFieldsCap + 2].name, 2>>
    /\ \A k \in 2..TopFieldsCap :
           results.val[BSONFieldAnalyzer_get_name].top_fields[k]
               = <<results.val[BSONFieldAnalyzer_get_name].all_fields[k - 1].name, 1>>

====
